---- MODULE Spec2Model ----
(***************************************************************************)
(* Model of y360_disk_url_owner: the interactive session of main.py        *)
(* (Application.run, setup_config, configure_new, main_loop, process_url)  *)
(* and the pure function url_parser.normalize_url.                         *)
(*                                                                         *)
(* Text is modelled as a sequence of one-character strings, so that the    *)
(* conversions (strip, lower, urlparse, parse_qs, unquote) are computed    *)
(* character by character as the library code computes them.               *)
(***************************************************************************)
EXTENDS Naturals, Sequences, FiniteSets, TLC

VARIABLES
    pc,         \* the program's position: a state of the orchestrator, or a phase of a pure check
    cfgFile,    \* ConfigManager: the .env file on disk
    environ,    \* os.environ, restricted to API_TOKEN and ORG_ID
    sessions,   \* every YandexAPIClient constructed so far: its token and whether it is closed
    api_client, \* Application.api_client: 0 (None) or an index into sessions
    token,      \* the token in hand: loaded by setup_config or entered in configure_new
    line,       \* the text the operator typed at the last text prompt
    choice,     \* the operator's answer to show_config_menu
    whoami,     \* the response to the last whoami request
    entered,    \* what the operator types at the organization prompt and the confirmation
    outcome,    \* how the last try block ended (configure_new's or process_url's)
    shown,      \* the messages the last handler displayed
    calls,      \* the calls process_url has made for the current request, with their results
    remote,     \* the number of HTTP requests issued so far
    answer,     \* the operator's answer to ask_continue in main_loop
    exit_code,  \* the process's exit status once it has ended
    arg,        \* pure checks: the input
    ret         \* pure checks: the result

appVars == <<cfgFile, environ, sessions, api_client, token, line, choice, whoami,
             entered, outcome, shown, calls, remote, answer, exit_code>>
pureVars == <<arg, ret>>
vars == <<pc, appVars, pureVars>>

(***************************************************************************)
(* Bounds                                                                  *)
(***************************************************************************)
\* Longest tail appended to a link prefix when enumerating normalize_url inputs.
MaxTail == 3
\* Most API clients one run constructs (configure_new retries without limit).
MaxSessions == 2
\* Most entries in the accesses list of an owner-lookup response.
MaxAccesses == 2

(***************************************************************************)
(* Characters and elementary string operations (Python str)                *)
(***************************************************************************)
Lowercase ==
    <<"a","b","c","d","e","f","g","h","i","j","k","l","m",
      "n","o","p","q","r","s","t","u","v","w","x","y","z">>

Uppercase ==
    <<"A","B","C","D","E","F","G","H","I","J","K","L","M",
      "N","O","P","Q","R","S","T","U","V","W","X","Y","Z">>

Digits == <<"0","1","2","3","4","5","6","7","8","9">>

\* chr(32) .. chr(126); chr(96), the grave accent, is written <grave>
Printable ==
    <<" ","!","\"","#","$","%","&","'","(",")","*","+",",","-",".","/">>
    \o Digits \o <<":",";","<","=",">","?","@">> \o Uppercase
    \o <<"[","\\","]","^","_","<grave>">> \o Lowercase \o <<"{","|","}","~">>

Range(s) == {s[i] : i \in 1..Len(s)}

AlnumChars == Range(Lowercase) \cup Range(Uppercase) \cup Range(Digits)

\* str.strip() with no argument removes leading and trailing whitespace
Whitespace == {" ", "\t", "\n", "\r"}

RECURSIVE LStrip(_)
LStrip(s) ==
    IF s # <<>> /\ Head(s) \in Whitespace THEN LStrip(Tail(s)) ELSE s

RECURSIVE RStrip(_)
RStrip(s) ==
    IF s # <<>> /\ s[Len(s)] \in Whitespace
    THEN RStrip(SubSeq(s, 1, Len(s) - 1)) ELSE s

Strip(s) == RStrip(LStrip(s))

\* str.lower(), on the ASCII letters
LowerChar(c) ==
    IF c \in Range(Uppercase)
    THEN Lowercase[CHOOSE i \in 1..26 : Uppercase[i] = c]
    ELSE c

Lower(s) == [i \in 1..Len(s) |-> LowerChar(s[i])]

\* str.startswith
StartsWith(s, p) == Len(s) >= Len(p) /\ SubSeq(s, 1, Len(p)) = p

\* `sub in s`
Contains(s, sub) ==
    \E i \in 1..(Len(s) + 1) :
        i + Len(sub) - 1 <= Len(s) /\ SubSeq(s, i, i + Len(sub) - 1) = sub

\* str.find(c) for a set of characters, 1-based; 0 when none occurs (at or after from)
FindAny(s, cs, from) ==
    LET hits == {i \in from..Len(s) : s[i] \in cs}
    IN IF hits = {} THEN 0 ELSE CHOOSE i \in hits : \A j \in hits : i <= j

\* str.rfind(c), 1-based; 0 when c does not occur
RFind(s, c) ==
    LET hits == {i \in 1..Len(s) : s[i] = c}
    IN IF hits = {} THEN 0 ELSE CHOOSE i \in hits : \A j \in hits : i >= j

\* s.split(c, 1): the part before the first c and the part after it
Before(s, c) ==
    LET i == FindAny(s, {c}, 1) IN IF i = 0 THEN s ELSE SubSeq(s, 1, i - 1)

After(s, c) ==
    LET i == FindAny(s, {c}, 1) IN IF i = 0 THEN <<>> ELSE SubSeq(s, i + 1, Len(s))

\* s.split(c): all the parts
RECURSIVE Split(_, _)
Split(s, c) ==
    IF FindAny(s, {c}, 1) = 0 THEN <<s>>
    ELSE <<Before(s, c)>> \o Split(After(s, c), c)

(***************************************************************************)
(* urllib.parse.unquote                                                    *)
(***************************************************************************)
HexDigits == Range(Digits) \cup {"a","b","c","d","e","f","A","B","C","D","E","F"}

HexVal(c) ==
    IF c \in Range(Digits) THEN (CHOOSE i \in 1..10 : Digits[i] = c) - 1
    ELSE 9 + (CHOOSE i \in 1..6 : Lowercase[i] = LowerChar(c))

\* The character a decoded byte becomes: bytes are decoded as UTF-8 with
\* errors='replace', so a lone byte >= 0x80 becomes U+FFFD.
Chr(n) ==
    IF n \in 32..126 THEN Printable[n - 31]
    ELSE IF n >= 128 THEN "<U+FFFD>"
    ELSE "<ctl>"

RECURSIVE Unquote(_)
Unquote(s) ==
    IF s = <<>> THEN <<>>
    ELSE IF Head(s) = "%" /\ Len(s) >= 3 /\ s[2] \in HexDigits /\ s[3] \in HexDigits
    THEN <<Chr(16 * HexVal(s[2]) + HexVal(s[3]))>> \o Unquote(SubSeq(s, 4, Len(s)))
    ELSE <<Head(s)>> \o Unquote(Tail(s))

\* value.replace('+', ' ')
PlusToSpace(s) == [i \in 1..Len(s) |-> IF s[i] = "+" THEN " " ELSE s[i]]

(***************************************************************************)
(* urllib.parse.parse_qs (keep_blank_values=False, separator='&')          *)
(***************************************************************************)
\* parse_qsl: the (name, value) pairs, in order; a field without '=' or with an
\* empty value is dropped; '+' becomes a space and both parts are unquoted.
RECURSIVE QslOf(_)
QslOf(fields) ==
    IF fields = <<>> THEN <<>>
    ELSE LET f == Head(fields)
             hasEq == FindAny(f, {"="}, 1) # 0
             name == Unquote(PlusToSpace(Before(f, "=")))
             value == Unquote(PlusToSpace(After(f, "=")))
         IN (IF f # <<>> /\ hasEq /\ After(f, "=") # <<>>
             THEN <<[name |-> name, value |-> value]>> ELSE <<>>)
            \o QslOf(Tail(fields))

ParseQsl(query) == QslOf(Split(query, "&"))

\* `name in parse_qs(query)`
QsHas(query, name) == \E i \in 1..Len(ParseQsl(query)) : ParseQsl(query)[i].name = name

\* parse_qs(query)[name][0]
QsFirst(query, name) ==
    LET l == ParseQsl(query)
        i == CHOOSE k \in 1..Len(l) : l[k].name = name /\ \A j \in 1..(k-1) : l[j].name # name
    IN l[i].value

(***************************************************************************)
(* urllib.parse.urlparse                                                   *)
(***************************************************************************)
SchemeChars == AlnumChars \cup {"+", "-", "."}

\* urlsplit drops tab, CR and LF from the URL
RemoveUnsafe(s) == SelectSeq(s, LAMBDA c : c \notin {"\t", "\r", "\n"})

\* The result of urlparse: [error |-> TRUE] for ValueError("Invalid IPv6 URL"),
\* else the netloc, path and query (the only fields normalize_url reads).
UrlParse(raw) ==
    LET url0 == RemoveUnsafe(raw)
        colon == FindAny(url0, {":"}, 1)
        hasScheme == /\ colon > 1
                     /\ url0[1] \in Range(Lowercase) \cup Range(Uppercase)
                     /\ \A i \in 1..(colon - 1) : url0[i] \in SchemeChars
        url1 == IF hasScheme THEN SubSeq(url0, colon + 1, Len(url0)) ELSE url0
        hasNetloc == StartsWith(url1, <<"/", "/">>)
        delim == FindAny(url1, {"/", "?", "#"}, 3)
        netloc == IF ~hasNetloc THEN <<>>
                  ELSE IF delim = 0 THEN SubSeq(url1, 3, Len(url1))
                  ELSE SubSeq(url1, 3, delim - 1)
        url2 == IF ~hasNetloc THEN url1
                ELSE IF delim = 0 THEN <<>>
                ELSE SubSeq(url1, delim, Len(url1))
        url3 == Before(url2, "#")
        query == After(url3, "?")
        path0 == Before(url3, "?")
        \* urlparse: _splitparams cuts ';params' off the last path segment
        semi == FindAny(path0, {";"}, IF RFind(path0, "/") = 0 THEN 1 ELSE RFind(path0, "/"))
        path == IF semi = 0 THEN path0 ELSE SubSeq(path0, 1, semi - 1)
    IN IF ("[" \in Range(netloc)) # ("]" \in Range(netloc))
       THEN [error |-> TRUE, netloc |-> <<>>, path |-> <<>>, query |-> <<>>]
       ELSE [error |-> FALSE, netloc |-> netloc, path |-> path, query |-> query]

(***************************************************************************)
(* url_parser.normalize_url                                                *)
(***************************************************************************)
Http == <<"h","t","t","p">>
DiskHost == <<"d","i","s","k",".","y","a","n","d","e","x",".","r","u">>
HashName == <<"h","a","s","h">>
SlashD == <<"/","d","/">>
CanonicalPrefix ==
    Http \o <<"s",":","/","/">> \o DiskHost
    \o <<"/","p","u","b","l","i","c","/","?">> \o HashName \o <<"=">>

\* re.match(r'https?://disk\.yandex\.ru/d/([a-zA-Z0-9\-]+)', url): a prefix match
ShortMatch(url) ==
    \E pre \in {Http \o <<":","/","/">> \o DiskHost \o SlashD,
                Http \o <<"s",":","/","/">> \o DiskHost \o SlashD} :
        /\ StartsWith(url, pre)
        /\ Len(url) > Len(pre)
        /\ url[Len(pre) + 1] \in AlnumChars \cup {"-"}

\* re.match(r'^[a-zA-Z0-9+/]+=*$', url)
HashMatch(url) ==
    \E k \in 1..Len(url) :
        /\ \A i \in 1..k : url[i] \in AlnumChars \cup {"+", "/"}
        /\ \A i \in (k + 1)..Len(url) : url[i] = "="

\* What normalize_url returns or raises, in the shape of every call's result
Ok(v) == [kind |-> "ok", value |-> v, uid |-> 0, org |-> 0, msg |-> ""]
Raise(e) == [kind |-> e, value |-> <<>>, uid |-> 0, org |-> 0, msg |-> ""]

\* The branch taken when the text starts with 'http'
FullLink(url) ==
    LET parsed == UrlParse(url)
    IN IF parsed.error THEN Raise("ValueError")
       ELSE IF ~Contains(parsed.netloc, DiskHost) THEN Raise("URLParseError")
       ELSE IF QsHas(parsed.query, HashName)
            THEN Ok(CanonicalPrefix \o Unquote(QsFirst(parsed.query, HashName)))
       ELSE IF Contains(parsed.path, SlashD) THEN Ok(url)
       ELSE Raise("URLParseError")

normalize_url(raw) ==
    LET url == Strip(raw)
    IN IF url = <<>> THEN Raise("URLParseError")
       ELSE IF ShortMatch(url) THEN Ok(url)
       ELSE IF StartsWith(url, Http) THEN FullLink(url)
       ELSE IF HashMatch(url) THEN Ok(url)
       ELSE Raise("URLParseError")

(***************************************************************************)
(* Values                                                                  *)
(***************************************************************************)
\* Python's None where a text is expected (os.getenv of an unset variable)
NoneStr == <<"<None>">>

\* `if value:` for an Optional[str]
Truthy(v) == v # NoneStr /\ v # <<>>

\* str(n) and int(s) for the naturals; int is defined on digit strings
RECURSIVE IntToStr(_)
IntToStr(n) ==
    IF n < 10 THEN <<Digits[n + 1]>>
    ELSE IntToStr(n \div 10) \o <<Digits[(n % 10) + 1]>>

IsDigits(s) == s # <<>> /\ \A i \in 1..Len(s) : s[i] \in Range(Digits)

RECURSIVE StrToInt(_)
StrToInt(s) ==
    IF s = <<>> THEN 0
    ELSE 10 * StrToInt(SubSeq(s, 1, Len(s) - 1)) + HexVal(s[Len(s)])

(***************************************************************************)
(* config.ConfigManager                                                    *)
(***************************************************************************)
\* ConfigManager.get_masked_token: "***" for no token or fewer than 12
\* characters, else token[:9] + "..." + token[-4:]
RedactionMarker == <<"*", "*", "*">>
Ellipsis == <<".", ".", ".">>

get_masked_token(tok) ==
    IF ~Truthy(tok) \/ Len(tok) < 12 THEN RedactionMarker
    ELSE LET prefix == IF Len(tok) > 9 THEN SubSeq(tok, 1, 9) ELSE SubSeq(tok, 1, 3)
             suffix == IF Len(tok) > 4 THEN SubSeq(tok, Len(tok) - 3, Len(tok)) ELSE <<>>
         IN prefix \o Ellipsis \o suffix

NoFile == [exists |-> FALSE, API_TOKEN |-> NoneStr, ORG_ID |-> NoneStr]

\* os.environ with neither variable set
EmptyEnviron == [API_TOKEN |-> NoneStr, ORG_ID |-> NoneStr]

\* load_dotenv(path) with override=False: a variable of the file is put into
\* os.environ only when the environment does not hold it already
LoadDotenv(file, env) ==
    [k \in {"API_TOKEN", "ORG_ID"} |-> IF env[k] = NoneStr THEN file[k] ELSE env[k]]

\* ConfigManager.load: the new environment and the (token, org_id) returned
ConfigLoad(file, env) ==
    IF ~file.exists
    THEN [environ |-> env, token |-> NoneStr, org_id |-> NoneStr]
    ELSE LET e == LoadDotenv(file, env)
         IN [environ |-> e, token |-> e.API_TOKEN, org_id |-> e.ORG_ID]

\* ConfigManager.save: the file after set_key of both variables
ConfigSave(file, tok, org) == [exists |-> TRUE, API_TOKEN |-> tok, ORG_ID |-> org]

\* ConfigManager.delete: the file is unlinked if it exists
ConfigDelete(file) == NoFile

(***************************************************************************)
(* ui.UI: the methods the class defines, with the numbers of positional    *)
(* arguments each accepts                                                  *)
(***************************************************************************)
UIMethods ==
    [clear_screen |-> {0}, show_welcome |-> {0}, show_config_info |-> {2},
     show_config_menu |-> {0}, prompt_token |-> {0}, prompt_org_id |-> {0},
     show_token_info |-> {1}, show_scope_validation |-> {2},
     show_config_saved |-> {0}, show_main_instructions |-> {0},
     prompt_url |-> {0}, show_processing |-> {0, 1}, clear_processing |-> {0},
     show_user_info |-> {1}, show_error |-> {1}, show_warning |-> {1},
     show_info |-> {1}, show_goodbye |-> {0}, pause |-> {0}]

\* self.ui.<name>(<nargs arguments>) returns normally: the attribute exists
\* (else AttributeError) and takes that many arguments (else TypeError)
UICallable(name, nargs) == name \in DOMAIN UIMethods /\ nargs \in UIMethods[name]

\* ui.prompt_url: the stripped line, or None for a quit keyword
QuitWords == {<<"q">>, <<"q","u","i","t">>, <<"e","x","i","t">>}

(***************************************************************************)
(* api_client.YandexAPIClient                                              *)
(***************************************************************************)
DiskRead == "cloud_api:disk.read"
DiskWrite == "cloud_api:disk.write"
UsersRead == "directory:read_users"
UsersWrite == "directory:write_users"

REQUIRED_SCOPES == [disk |-> <<DiskRead, DiskWrite>>, users |-> <<UsersRead, UsersWrite>>]

\* validate_scopes counting the read scope of each group only
validate_scopes_read_only(scopes) ==
    LET missing == (IF DiskRead \in scopes THEN <<>> ELSE <<DiskRead>>)
                   \o (IF UsersRead \in scopes THEN <<>> ELSE <<UsersRead>>)
    IN [is_valid |-> Len(missing) = 0, missing |-> missing]

validate_scopes(scopes) ==
    LET has_disk == \E i \in 1..Len(REQUIRED_SCOPES.disk) : REQUIRED_SCOPES.disk[i] \in scopes
        has_users == \E i \in 1..Len(REQUIRED_SCOPES.users) : REQUIRED_SCOPES.users[i] \in scopes
        missing == (IF has_disk THEN <<>> ELSE <<DiskRead>>)
                   \o (IF has_users THEN <<>> ELSE <<UsersRead>>)
    IN [is_valid |-> Len(missing) = 0, missing |-> missing]

\* A JSON value of an accesses entry's id or org_id field
JNone == [t |-> "none", v |-> 0]
JInt(n) == [t |-> "int", v |-> n]
JBad == [t |-> "bad", v |-> 0]  \* a value int() rejects, such as "abc"

\* What a call returns or raises: kind is "ok" or the exception's class
ApiOk(uid, org) == [kind |-> "ok", value |-> <<>>, uid |-> uid, org |-> org, msg |-> ""]
ApiError(msg) == [kind |-> "YandexAPIError", value |-> <<>>, uid |-> 0, org |-> 0, msg |-> msg]
OtherError(e) == [kind |-> e, value |-> <<>>, uid |-> 0, org |-> 0, msg |-> ""]

\* The loop over data["accesses"]: the first entry of type "owner" decides
RECURSIVE ScanAccesses(_)
ScanAccesses(accesses) ==
    IF accesses = <<>> THEN ApiError("owner_not_found")
    ELSE LET access == Head(accesses)
         IN IF access.type = "owner"
            THEN IF access.id = JNone \/ access.org_id = JNone
                 THEN ApiError("owner_incomplete")
                 ELSE IF access.id.t = "bad" \/ access.org_id.t = "bad"
                 THEN OtherError("ValueError")
                 ELSE ApiOk(access.id.v, access.org_id.v)
            ELSE ScanAccesses(Tail(accesses))

\* whoami on a response [status]: every RequestException, HTTP error statuses
\* included, is raised again as YandexAPIError with the one text of line 62,
\* followed by the exception's own text.  A msg names the fixed text of the
\* raise statement; the parts formatted into it are left out.
whoami_request(resp) ==
    IF resp.status = 0 \/ resp.status \in 400..599 THEN ApiError("whoami_error")
    ELSE ApiOk(0, 0)

\* get_resource_owner on a response [status, accesses]; status 0 stands for a
\* request that got no response (a RequestException other than HTTPError)
get_resource_owner(resp) ==
    IF resp.status = 0 THEN ApiError("owner_transport")
    ELSE IF resp.status = 404 THEN ApiError("owner_404")
    ELSE IF resp.status = 403 THEN ApiError("owner_403")
    ELSE IF resp.status = 401 THEN ApiError("401")
    ELSE IF resp.status \in 400..599 THEN ApiError("http_other")
    ELSE ScanAccesses(resp.accesses)

\* get_user_info on a response [status, wellformed]
get_user_info(resp) ==
    IF resp.status = 0 THEN ApiError("user_transport")
    ELSE IF resp.status = 404 THEN ApiError("user_404")
    ELSE IF resp.status = 403 THEN ApiError("user_403")
    ELSE IF resp.status = 401 THEN ApiError("401")
    ELSE IF resp.status \in 400..599 THEN ApiError("http_other")
    ELSE ApiOk(0, 0)

\* The sequences over S of length at most n
RECURSIVE SeqsUpTo(_, _)
SeqsUpTo(S, n) ==
    IF n = 0 THEN {<<>>}
    ELSE LET shorter == SeqsUpTo(S, n - 1)
         IN shorter \cup {Append(s, c) : s \in {t \in shorter : Len(t) = n - 1}, c \in S}

(***************************************************************************)
(* The operator's inputs and the servers' responses                        *)
(***************************************************************************)
SavedToken == <<"t","0">>
SavedOrg == <<"7">>

\* The configuration file a previous run, or an editor, may have left
InitialFiles ==
    {NoFile} \cup
    {[exists |-> TRUE, API_TOKEN |-> t, ORG_ID |-> o] :
        t \in {NoneStr, <<>>, SavedToken}, o \in {NoneStr, SavedOrg}}

TokenLines == {<<>>, <<" ">>, <<"t","1">>, <<" ","t","1"," ">>, <<"t","2">>}

OrgLines == {<<>>, <<"7">>, <<"9">>, <<"x">>}

AllScopes == {DiskRead, DiskWrite, UsersRead, UsersWrite}

\* whoami: a failed request, a JSON body that is no object, or the object's fields
WhoamiResponses ==
    {[kind |-> k, orgIds |-> <<>>, scopes |-> {}] : k \in {"error", "notdict"}}
    \cup {[kind |-> "dict", orgIds |-> o, scopes |-> s] :
            o \in {<<>>, <<7>>}, s \in SUBSET AllScopes}

NoWhoami == [kind |-> "none", orgIds |-> <<>>, scopes |-> {}]
NoEntry == [org_id |-> <<>>, confirm |-> FALSE]

UrlLines ==
    { <<>>, <<" ">>, <<"q">>, <<"Q","u","i","t">>, <<" ","E","X","I","T">>,
      Http \o <<"s",":","/","/">> \o DiskHost \o SlashD \o <<"x">>,
      CanonicalPrefix \o <<"x","+","x">>,
      <<"x","+","=">>,
      Http \o <<"x">>,
      Http \o <<":","/","/","[">>,
      <<"x","%">> }

Statuses == {0, 200, 401, 403, 404, 500}

AccessEntries ==
    {[type |-> t, id |-> i, org_id |-> o] :
        t \in {"owner", "user"}, i \in {JNone, JInt(500), JBad}, o \in {JNone, JInt(8), JBad}}

OwnerResponses ==
    {[status |-> s, accesses |-> <<>>] : s \in Statuses \ {200}}
    \cup {[status |-> 200, accesses |-> a] : a \in SeqsUpTo(AccessEntries, MaxAccesses)}

UserResponses == {[status |-> s, wellformed |-> w] : s \in Statuses, w \in BOOLEAN}

(***************************************************************************)
(* main.Application                                                        *)
(***************************************************************************)
NewSession(tok) == [token |-> tok, closed |-> FALSE]

\* YandexAPIClient.close() on sessions[i]; i = 0 is `if self.api_client:` failing
Close(ss, i) == [k \in 1..Len(ss) |-> IF k = i THEN [ss[k] EXCEPT !.closed = TRUE] ELSE ss[k]]

PureIdle == arg = <<>> /\ ret = Raise("none")

Init ==
    /\ pc = "Start"
    /\ cfgFile \in InitialFiles
    /\ environ = EmptyEnviron
    /\ sessions = <<>>
    /\ api_client = 0
    /\ token = NoneStr
    /\ line = <<>>
    /\ choice = ""
    /\ whoami = NoWhoami
    /\ entered = NoEntry
    /\ outcome = "none"
    /\ shown = {}
    /\ calls = <<>>
    /\ remote = 0
    /\ answer = "none"
    /\ exit_code = "running"
    /\ PureIdle

\* The state of the application's variables in the checks of pure functions
AppIdle ==
    /\ cfgFile = NoFile
    /\ environ = EmptyEnviron
    /\ sessions = <<>>
    /\ api_client = 0
    /\ token = NoneStr
    /\ line = <<>>
    /\ choice = ""
    /\ whoami = NoWhoami
    /\ entered = NoEntry
    /\ outcome = "none"
    /\ shown = {}
    /\ calls = <<>>
    /\ remote = 0
    /\ answer = "none"
    /\ exit_code = "running"

\* run's `finally`, after a normal return or sys.exit(code)
Finish(code, messages) ==
    /\ pc' = "Done"
    /\ exit_code' = code
    /\ shown' = messages
    /\ sessions' = Close(sessions, api_client)
    /\ UNCHANGED api_client

\* run and setup_config up to the menu: with a file holding a token and an
\* organization id the saved settings are shown, else configure_new starts
Startup ==
    /\ pc = "Start"
    /\ LET l == ConfigLoad(cfgFile, environ)
       IN /\ environ' = l.environ
          /\ token' = l.token
          /\ IF cfgFile.exists /\ Truthy(l.token) /\ Truthy(l.org_id)
             THEN pc' = "ReviewExisting" /\ shown' = {"welcome", "config_info"}
             ELSE pc' = "AwaitingCredentialInput" /\ shown' = {"welcome"}
    /\ UNCHANGED <<cfgFile, sessions, api_client, line, choice, whoami, entered,
                   outcome, calls, remote, answer, exit_code, pureVars>>

\* Mutant: the final `else: return False` is lost, so "3" falls through to
\* the configure_new call at the end of setup_config
MenuNext_fallthrough(c) ==
    IF c = "1" THEN "MainLoop" ELSE "AwaitingCredentialInput"

\* setup_config's branch on the operator's choice: "1" keeps the saved
\* settings, "2" runs configure_new, anything else returns False
MenuNext(c) ==
    IF c = "1" THEN "MainLoop"
    ELSE IF c = "2" THEN "AwaitingCredentialInput"
    ELSE "Done"

\* setup_config after show_config_menu returned the operator's choice
ConfigMenu ==
    /\ pc = "ReviewExisting"
    /\ \E c \in {"1", "2", "3"} :
        /\ choice' = c
        /\ IF MenuNext(c) = "MainLoop"
           THEN /\ sessions' = Append(sessions, NewSession(token))
                /\ api_client' = Len(sessions) + 1
                /\ pc' = "MainLoop"
                /\ shown' = {"main_instructions"}
                /\ UNCHANGED exit_code
           ELSE IF MenuNext(c) = "AwaitingCredentialInput"
           THEN /\ pc' = "AwaitingCredentialInput"
                /\ shown' = {}
                /\ UNCHANGED <<sessions, api_client, exit_code>>
           ELSE Finish("0", {"goodbye"})
    /\ UNCHANGED <<cfgFile, environ, token, line, whoami, entered, outcome,
                   calls, remote, answer, pureVars>>

\* Mutant: prompt_token returns the line as typed
TokenOf_unstripped(l) == l

\* ui.prompt_token: the line the operator typed, stripped
TokenOf(l) == Strip(l)

\* configure_new: prompt_token and the check for an empty token; a token that
\* is not empty gets its temporary client
PromptToken ==
    /\ pc = "AwaitingCredentialInput"
    /\ \E l \in TokenLines :
        /\ line' = l
        /\ IF TokenOf(l) = <<>>
           THEN /\ shown' = {"error:empty_token"}
                /\ UNCHANGED <<pc, token, sessions>>
           ELSE /\ Len(sessions) < MaxSessions
                /\ token' = TokenOf(l)
                /\ sessions' = Append(sessions, NewSession(TokenOf(l)))
                /\ pc' = "ValidatingCredential"
                /\ shown' = {}
    /\ UNCHANGED <<cfgFile, environ, api_client, choice, whoami, entered, outcome,
                   calls, remote, answer, exit_code, pureVars>>

\* The try block of configure_new (main.py 99-149) for the token in hand, given
\* the whoami response and what the operator types when asked: how it ends
\* ("saved", "continue", or the exception raised) and the messages it shows
TryConfigure(resp, org_line, confirm) ==
    LET org_id == Strip(org_line)
        v == validate_scopes(resp.scopes)
        unknownOrg == resp.orgIds # <<>> /\ StrToInt(org_id) \notin Range(resp.orgIds)
    IN IF resp.kind = "error" THEN [outcome |-> "YandexAPIError", shown |-> {}]
       \* whoami_data.get on a JSON value that is no object: AttributeError
       ELSE IF resp.kind = "notdict" THEN [outcome |-> "Exception", shown |-> {}]
       ELSE IF ~UICallable("show_token_validation", 2)
            THEN [outcome |-> "Exception", shown |-> {}]
       ELSE IF ~v.is_valid
            THEN [outcome |-> "continue",
                  shown |-> {"token_validation", "warning:no_rights"}
                            \cup {"missing:" \o v.missing[i] : i \in 1..Len(v.missing)}]
       ELSE IF ~UICallable("prompt_org_id", 1)
            THEN [outcome |-> "Exception", shown |-> {"token_validation"}]
       ELSE IF org_id = <<>>
            THEN [outcome |-> "continue", shown |-> {"token_validation", "error:empty_org"}]
       ELSE IF ~IsDigits(org_id)
            THEN [outcome |-> "continue", shown |-> {"token_validation", "error:org_not_number"}]
       ELSE IF unknownOrg /\ ~UICallable("ask_continue", 0)
            THEN [outcome |-> "Exception", shown |-> {"token_validation", "warning:unknown_org"}]
       ELSE IF unknownOrg /\ ~confirm
            THEN [outcome |-> "continue", shown |-> {"token_validation", "warning:unknown_org"}]
       ELSE [outcome |-> "saved", shown |-> {"token_validation", "config_saved"}]

\* Mutant: the handler of Exception retries like the handler of YandexAPIError
ConfigureNext_retry(how) ==
    IF how = "saved" THEN "MainLoop" ELSE "AwaitingCredentialInput"

\* Where configure_new goes after its try block: `return True`, `continue`,
\* the handler of YandexAPIError (`continue`) or of Exception (`return False`)
ConfigureNext(how) ==
    IF how = "saved" THEN "MainLoop"
    ELSE IF how \in {"continue", "YandexAPIError"} THEN "AwaitingCredentialInput"
    ELSE "Done"

\* configure_new from temp_client.whoami() to the end of the loop's body, and,
\* when it returns, run's next step
ValidateCredential ==
    /\ pc = "ValidatingCredential"
    /\ \E resp \in WhoamiResponses, org_line \in OrgLines, confirm \in BOOLEAN :
        LET r == TryConfigure(resp, org_line, confirm)
            next == ConfigureNext(r.outcome)
        IN /\ whoami' = resp
           /\ entered' = [org_id |-> org_line, confirm |-> confirm]
           /\ remote' = remote + 1
           /\ outcome' = r.outcome
           /\ pc' = next
           /\ cfgFile' = IF r.outcome = "saved"
                         THEN ConfigSave(cfgFile, token, Strip(org_line)) ELSE cfgFile
           /\ IF r.outcome = "saved"
              THEN /\ sessions' = Append(Close(sessions, Len(sessions)), NewSession(token))
                   /\ api_client' = Len(sessions) + 1
                   /\ shown' = r.shown \cup {"main_instructions"}
                   /\ UNCHANGED exit_code
              ELSE IF next = "Done"
              THEN Finish("0", r.shown \cup {"error:unexpected", "goodbye"})
              ELSE /\ shown' = r.shown \cup
                          (IF r.outcome = "YandexAPIError"
                           THEN {"error:token_check", "warning:try_again"} ELSE {})
                   /\ UNCHANGED <<sessions, api_client, exit_code>>
    /\ UNCHANGED <<environ, token, line, choice, calls, answer, pureVars>>

\* main_loop: prompt_url, then the quit keyword, the empty line, or a request
PromptUrl ==
    /\ pc = "MainLoop"
    /\ \E l \in UrlLines :
        /\ line' = l
        /\ IF Lower(Strip(l)) \in QuitWords
           THEN Finish("0", {"goodbye"}) /\ UNCHANGED <<calls, outcome>>
           ELSE IF Strip(l) = <<>>
           THEN /\ shown' = {"error:empty_url"}
                /\ UNCHANGED <<pc, calls, outcome, sessions, api_client, exit_code>>
           ELSE /\ pc' = "Normalizing"
                /\ calls' = <<>>
                /\ outcome' = "none"
                /\ shown' = {"processing"}
                /\ UNCHANGED <<sessions, api_client, exit_code>>
    /\ UNCHANGED <<cfgFile, environ, token, choice, whoami, entered, remote,
                   answer, pureVars>>

\* process_url's locals, read from the calls made so far
normalized_url == calls[1].result.value
owner_uid == calls[2].result.uid
resource_org_id == calls[2].result.org
config_org_id == ConfigLoad(cfgFile, environ).org_id

\* Mutant: the organization id of the configuration is used
org_id_to_use_config == config_org_id

\* main.py 207: the organization of the resource is the one used
org_id_to_use == IntToStr(resource_org_id)

\* The handlers of process_url: what the request's end is recorded as
Handled(kind) ==
    IF kind \in {"ok", "URLParseError", "YandexAPIError"} THEN kind ELSE "Exception"

\* process_url: normalize_url(url)
NormalizeStep ==
    /\ pc = "Normalizing"
    /\ LET r == normalize_url(Strip(line))
       IN /\ calls' = Append(calls, [op |-> "normalize_url", args |-> <<Strip(line)>>, result |-> r])
          /\ IF r.kind = "ok"
             THEN pc' = "OwnerLookup" /\ shown' = {"processing"} /\ UNCHANGED outcome
             ELSE pc' = "AskContinue" /\ shown' = {"error:" \o Handled(r.kind)}
                  /\ outcome' = Handled(r.kind)
    /\ UNCHANGED <<cfgFile, environ, sessions, api_client, token, line, choice, whoami,
                   entered, remote, answer, exit_code, pureVars>>

\* process_url: api_client.get_resource_owner(normalized_url), then config.load()
OwnerLookup ==
    /\ pc = "OwnerLookup"
    /\ \E resp \in OwnerResponses :
        LET r == get_resource_owner(resp)
        IN /\ calls' = Append(calls, [op |-> "get_resource_owner",
                                     args |-> <<normalized_url>>, result |-> r])
           /\ remote' = remote + 1
           /\ IF r.kind = "ok"
              THEN /\ pc' = "ProfileLookup"
                   /\ environ' = ConfigLoad(cfgFile, environ).environ
                   /\ shown' = {"processing"}
                   /\ UNCHANGED outcome
              ELSE /\ pc' = "AskContinue"
                   /\ shown' = {"error:" \o Handled(r.kind)}
                   /\ outcome' = Handled(r.kind)
                   /\ UNCHANGED environ
    /\ UNCHANGED <<cfgFile, sessions, api_client, token, line, choice, whoami,
                   entered, answer, exit_code, pureVars>>

\* process_url: api_client.get_user_info(org_id_to_use, owner_uid), then
\* show_user_info, which fails on a body that is no object
ProfileLookup ==
    /\ pc = "ProfileLookup"
    /\ \E resp \in UserResponses :
        LET r == get_user_info(resp)
            how == IF r.kind = "ok" /\ ~resp.wellformed THEN "Exception" ELSE Handled(r.kind)
        IN /\ calls' = Append(calls, [op |-> "get_user_info",
                                     args |-> <<org_id_to_use, IntToStr(owner_uid)>>,
                                     result |-> r])
           /\ remote' = remote + 1
           /\ outcome' = how
           /\ shown' = IF how = "ok" THEN {"user_info"} ELSE {"error:" \o how}
           /\ pc' = "AskContinue"
    /\ UNCHANGED <<cfgFile, environ, sessions, api_client, token, line, choice, whoami,
                   entered, answer, exit_code, pureVars>>

\* main_loop after process_url returned: self.ui.ask_continue(). An
\* AttributeError here leaves main_loop and reaches run's `except Exception`,
\* which reports it and calls sys.exit(1).
AskContinue ==
    /\ pc = "AskContinue"
    /\ \E a \in {"yes", "no"} :
        IF ~UICallable("ask_continue", 0)
        THEN Finish("1", {"error:unexpected"}) /\ UNCHANGED answer
        ELSE /\ answer' = a
             /\ IF a = "yes"
                THEN /\ pc' = "MainLoop"
                     /\ shown' = {}
                     /\ UNCHANGED <<sessions, api_client, exit_code>>
                ELSE Finish("0", {"goodbye"})
    /\ UNCHANGED <<cfgFile, environ, token, line, choice, whoami, entered, outcome,
                   calls, remote, pureVars>>

\* The places where the program waits (a prompt, a request in flight)
Waiting ==
    {"ReviewExisting", "AwaitingCredentialInput", "ValidatingCredential",
     "MainLoop", "OwnerLookup", "ProfileLookup"}
    \cup (IF UICallable("ask_continue", 0) THEN {"AskContinue"} ELSE {})

\* run's `except KeyboardInterrupt`: the operator interrupts while the program waits
Interrupt ==
    /\ pc \in Waiting
    /\ Finish("0", {"info:interrupted", "goodbye"})
    /\ UNCHANGED <<cfgFile, environ, token, line, choice, whoami, entered, outcome,
                   calls, remote, answer, pureVars>>

Next ==
    \/ Startup
    \/ ConfigMenu
    \/ PromptToken
    \/ ValidateCredential
    \/ PromptUrl
    \/ NormalizeStep
    \/ OwnerLookup
    \/ ProfileLookup
    \/ AskContinue
    \/ Interrupt

Spec == Init /\ [][Next]_vars

(***************************************************************************)
(* Inputs of normalize_url: a link prefix followed by a short tail          *)
(***************************************************************************)
TailChars == {"x", "+", "%", "2", "5", "B", "=", "&", "/"}

FullPrefix == Http \o <<"s",":","/","/">> \o DiskHost \o <<"/","p","u","b","l","i","c","/","?">>

Prefixes ==
    { <<>>,
      Http,
      FullPrefix \o HashName \o <<"=">>,
      FullPrefix \o <<"x","=","x","&">> \o HashName \o <<"=">>,
      Http \o <<":","/","/">> \o DiskHost \o <<"/","x","?">> \o HashName \o <<"=">>,
      Http \o <<"s",":","/","/">> \o DiskHost \o SlashD,
      Http \o <<"s",":","/","/">> \o DiskHost \o SlashD \o <<"x","?">> \o HashName \o <<"=">>,
      Http \o <<"s",":","/","/","x",".","r","u","/","?">> \o HashName \o <<"=">> }

NormInputs == {p \o t : p \in Prefixes, t \in SeqsUpTo(TailChars, MaxTail)}

(***************************************************************************)
(* Specification of the pure function: pick an input, apply normalize_url  *)
(***************************************************************************)
NormInit ==
    /\ pc = "norm_input"
    /\ arg \in NormInputs
    /\ ret = Raise("none")
    /\ AppIdle

Normalize ==
    /\ pc = "norm_input"
    /\ ret' = normalize_url(arg)
    /\ pc' = "norm_done"
    /\ UNCHANGED <<arg, appVars>>

NormNext == Normalize

SpecNorm == NormInit /\ [][NormNext]_vars

(***************************************************************************)
(* Specification of validate_scopes: pick a scope list, apply the function *)
(***************************************************************************)
\* Longest scope list given to validate_scopes.
MaxScopes == 3

\* The scopes a token may carry: the four the application knows and another
ScopeNames == AllScopes \cup {"other:scope"}

ScopeInputs == SeqsUpTo(ScopeNames, MaxScopes)

ScopesInit ==
    /\ pc = "scopes_input"
    /\ arg \in ScopeInputs
    /\ ret = Raise("none")
    /\ AppIdle

\* validate_scopes(scopes): scopes_set = set(scopes), then the two group checks
ValidateScopes ==
    /\ pc = "scopes_input"
    /\ ret' = validate_scopes(Range(arg))
    /\ pc' = "scopes_done"
    /\ UNCHANGED <<arg, appVars>>

ScopesNext == ValidateScopes

SpecScopes == ScopesInit /\ [][ScopesNext]_vars

(***************************************************************************)
(* Specification of get_masked_token: pick a token, mask it                *)
(***************************************************************************)
\* Longest token given to get_masked_token.
MaxToken == 13

\* Tokens are written with a letter and the full stop
TokenChars == {"a", "."}

MaskInputs == SeqsUpTo(TokenChars, MaxToken)

MaskInit ==
    /\ pc = "mask_input"
    /\ arg \in MaskInputs
    /\ ret = <<>>
    /\ AppIdle

Mask ==
    /\ pc = "mask_input"
    /\ ret' = get_masked_token(arg)
    /\ pc' = "mask_done"
    /\ UNCHANGED <<arg, appVars>>

MaskNext == Mask

SpecMask == MaskInit /\ [][MaskNext]_vars

(***************************************************************************)
(* Specification of get_resource_owner: pick the server's response, apply  *)
(* the function                                                            *)
(***************************************************************************)
OwnerInit ==
    /\ pc = "owner_input"
    /\ arg \in OwnerResponses
    /\ ret = Raise("none")
    /\ AppIdle

ResourceOwner ==
    /\ pc = "owner_input"
    /\ ret' = get_resource_owner(arg)
    /\ pc' = "owner_done"
    /\ UNCHANGED <<arg, appVars>>

OwnerNext == ResourceOwner

SpecOwner == OwnerInit /\ [][OwnerNext]_vars

(***************************************************************************)
(* Specification of the three remote operations' error handling: pick an   *)
(* operation and the status of the server's response, make the call        *)
(***************************************************************************)
RemoteOperations == {"whoami", "get_resource_owner", "get_user_info"}

\* The statuses raise_for_status turns into HTTPError
HttpErrorStatuses == 400..599

\* What the operation returns or raises for a response of the given status
RemoteResult(op, status) ==
    IF op = "whoami" THEN whoami_request([status |-> status])
    ELSE IF op = "get_resource_owner"
    THEN get_resource_owner([status |-> status, accesses |-> <<>>])
    ELSE get_user_info([status |-> status, wellformed |-> TRUE])

RemoteInit ==
    /\ pc = "remote_input"
    /\ arg \in [op : RemoteOperations, status : Statuses \cup HttpErrorStatuses]
    /\ ret = Raise("none")
    /\ AppIdle

RemoteCall ==
    /\ pc = "remote_input"
    /\ ret' = RemoteResult(arg.op, arg.status)
    /\ pc' = "remote_done"
    /\ UNCHANGED <<arg, appVars>>

RemoteNext == RemoteCall

SpecRemote == RemoteInit /\ [][RemoteNext]_vars

(***************************************************************************)
(* Specification of ConfigManager within one process: any sequence of      *)
(* save, load and delete, logged in calls; ret is what the last load       *)
(* returned                                                                *)
(***************************************************************************)
\* Most ConfigManager operations in one sequence.
MaxOps == 4

SaveTokens == {SavedToken, <<"t", "2">>}
SaveOrgs == {SavedOrg, <<"9">>}

NothingLoaded == [token |-> NoneStr, org_id |-> NoneStr]

ConfigOp(op, tok, org) == [op |-> op, token |-> tok, org_id |-> org]

CfgInit ==
    /\ pc = "config"
    /\ arg = <<>>
    /\ ret = NothingLoaded
    /\ AppIdle

CfgOther == <<api_client, sessions, token, line, choice, whoami, entered, outcome,
              shown, remote, answer, exit_code, arg>>

CfgSave ==
    /\ pc = "config"
    /\ Len(calls) < MaxOps
    /\ \E tok \in SaveTokens, org \in SaveOrgs :
        /\ cfgFile' = ConfigSave(cfgFile, tok, org)
        /\ calls' = Append(calls, ConfigOp("save", tok, org))
    /\ UNCHANGED <<pc, environ, ret, CfgOther>>

CfgLoad ==
    /\ pc = "config"
    /\ Len(calls) < MaxOps
    /\ LET l == ConfigLoad(cfgFile, environ)
       IN /\ environ' = l.environ
          /\ ret' = [token |-> l.token, org_id |-> l.org_id]
    /\ calls' = Append(calls, ConfigOp("load", NoneStr, NoneStr))
    /\ UNCHANGED <<pc, cfgFile, CfgOther>>

CfgDelete ==
    /\ pc = "config"
    /\ Len(calls) < MaxOps
    /\ cfgFile' = ConfigDelete(cfgFile)
    /\ calls' = Append(calls, ConfigOp("delete", NoneStr, NoneStr))
    /\ UNCHANGED <<pc, environ, ret, CfgOther>>

CfgNext == CfgSave \/ CfgLoad \/ CfgDelete

SpecConfig == CfgInit /\ [][CfgNext]_vars

(***************************************************************************)
(* Properties                                                              *)
(***************************************************************************)
RequestErrors == {"URLParseError", "YandexAPIError"}

\* C1: a request that ended in URLParseError or YandexAPIError has its error
\* shown, and the step after it either returns to the link prompt or ends the
\* run because the operator declined: it never exits with status 1.
C1_ErrorKeepsSession ==
    [][(pc = "AskContinue" /\ outcome \in RequestErrors)
        => /\ ("error:" \o outcome) \in shown
           /\ exit_code' # "1"
           /\ pc' = "MainLoop" \/ (pc' = "Done" /\ answer' = "no")]_vars

\* C2: the calls of one request are normalize_url, get_resource_owner and
\* get_user_info in that order, each at most once and only after the one before
\* succeeded; get_resource_owner gets the normalized link and get_user_info the
\* (org_id, uid) pair that get_resource_owner returned.
C2_CallOrder ==
    /\ Len(calls) <= 3
    /\ Len(calls) >= 1 => calls[1].op = "normalize_url"
    /\ Len(calls) >= 2 =>
        /\ calls[2].op = "get_resource_owner"
        /\ calls[1].result.kind = "ok"
        /\ calls[2].args = <<calls[1].result.value>>
    /\ Len(calls) >= 3 =>
        /\ calls[3].op = "get_user_info"
        /\ calls[2].result.kind = "ok"
        /\ calls[3].args = <<IntToStr(calls[2].result.org), IntToStr(calls[2].result.uid)>>

\* C2's case: a profile lookup made with an owner's organization that is not
\* the configured one
C2_Witness ==
    /\ Len(calls) = 3
    /\ cfgFile.ORG_ID = SavedOrg
    /\ calls[3].args[1] # cfgFile.ORG_ID

\* The operator's organization id is acceptable: a number that is in the
\* whoami response's list (when there is one) or that the operator confirms
OrgAccepted(resp, e) ==
    /\ IsDigits(Strip(e.org_id))
    /\ \/ resp.orgIds = <<>>
       \/ StrToInt(Strip(e.org_id)) \in Range(resp.orgIds)
       \/ e.confirm

\* C3: when whoami succeeds with valid scopes and the operator gives an
\* acceptable organization id, the token and the id are saved, the API client
\* is created and the program enters MainLoop.
C3_ValidTokenIsSaved ==
    [][(/\ pc = "ValidatingCredential"
        /\ remote' # remote
        /\ whoami'.kind = "dict"
        /\ validate_scopes(whoami'.scopes).is_valid
        /\ OrgAccepted(whoami', entered'))
        => /\ pc' = "MainLoop"
           /\ cfgFile' = ConfigSave(cfgFile, token, Strip(entered'.org_id))
           /\ api_client' # 0]_vars

\* C4: when whoami succeeds and the scopes fail validation, the missing scopes
\* are shown, the configuration file is left as it was and the flow is back
\* at the token prompt.
C4_BadScopesReprompt ==
    [][(/\ pc = "ValidatingCredential"
        /\ remote' # remote
        /\ whoami'.kind = "dict"
        /\ ~validate_scopes(whoami'.scopes).is_valid)
        => /\ pc' = "AwaitingCredentialInput"
           /\ cfgFile' = cfgFile
           /\ \A i \in 1..Len(validate_scopes(whoami'.scopes).missing) :
                ("missing:" \o validate_scopes(whoami'.scopes).missing[i]) \in shown']_vars

C6_AskedAfterRequest ==
    [][/\ pc = "AskContinue"
            => /\ answer' \in {"yes", "no"}
               /\ answer' = "yes" => pc' = "MainLoop"
               /\ answer' = "no" => (pc' = "Done" /\ exit_code' = "0")
       /\ (pc = "MainLoop" /\ pc' # "Done" /\ Strip(line') = <<>>)
            => (pc' = "MainLoop" /\ calls' = calls /\ remote' = remote)
       /\ (pc = "MainLoop" /\ line' # line /\ Lower(Strip(line')) \in QuitWords)
            => (pc' = "Done" /\ exit_code' = "0" /\ calls' = calls /\ remote' = remote)]_vars

\* C7: a try block of configure_new that ends in an error other than
\* YandexAPIError is reported and ends setup: the run goes to Done with the
\* configuration file as it was and no API client, not back to the token prompt
\* (and Done has no successor, so MainLoop is never entered).
C7_UnclassifiedAbortsSetup ==
    [][/\ (pc = "ValidatingCredential" /\ remote' # remote /\ outcome' = "Exception")
            => /\ pc' = "Done"
               /\ "error:unexpected" \in shown'
               /\ cfgFile' = cfgFile
               /\ api_client' = 0
       /\ pc = "Done" => pc' = "Done"]_vars

\* C7's case: setup ended by the error raised after a successful whoami
C7_Witness ==
    /\ pc = "Done"
    /\ outcome = "Exception"
    /\ whoami.kind = "dict"
    /\ "error:unexpected" \in shown

\* C8: a token line that is empty or only whitespace is rejected on the spot:
\* no client is created, no request is made, nothing is saved and the flow
\* stays at the token prompt.
C8_EmptyTokenRejected ==
    [][(pc = "AwaitingCredentialInput" /\ pc' # "Done" /\ Strip(line') = <<>>)
        => /\ pc' = "AwaitingCredentialInput"
           /\ "error:empty_token" \in shown'
           /\ sessions' = sessions
           /\ remote' = remote
           /\ cfgFile' = cfgFile
           /\ api_client' = api_client]_vars

\* C8's case: a whitespace-only line was typed at the token prompt
C8_Witness ==
    /\ pc = "AwaitingCredentialInput"
    /\ line = <<" ">>
    /\ "error:empty_token" \in shown

\* The query string of a link as written: the text after the first '?', up to '#'
RawQuery(s) == After(Before(s, "#"), "?")

\* The fields of the query string named hash, with a value
RawHashFields(s) ==
    SelectSeq(Split(RawQuery(s), "&"),
              LAMBDA f : StartsWith(f, HashName \o <<"=">>) /\ Len(f) > Len(HashName) + 1)

\* The value of the hash parameter as written in the link
RawHashValue(s) == After(Head(RawHashFields(s)), "=")

\* A full link on the storage host with a hash parameter
IsFullLinkWithHash(s) ==
    /\ \E scheme \in {Http \o <<":","/","/">>, Http \o <<"s",":","/","/">>} :
        /\ StartsWith(s, scheme \o DiskHost)
        /\ Len(s) > Len(scheme \o DiskHost)
        /\ s[Len(scheme \o DiskHost) + 1] \in {"/", "?"}
    /\ RawHashFields(s) # <<>>

\* C9: for a full link on the storage host with a hash parameter, whatever its
\* path and other parameters, normalize_url returns
\* https://disk.yandex.ru/public/?hash=<v>, v being the parameter's value
\* percent-decoded once and not changed otherwise.
C9_HashDecodedOnce ==
    (pc = "norm_done" /\ IsFullLinkWithHash(arg))
        => ret = Ok(CanonicalPrefix \o Unquote(RawHashValue(arg)))

\* The text matches [A-Za-z0-9+/]+=* and holds no '://'
IsBareHash(s) ==
    /\ \E k \in 1..Len(s) :
        /\ \A i \in 1..k : s[i] \in AlnumChars \cup {"+", "/"}
        /\ \A i \in (k + 1)..Len(s) : s[i] = "="
    /\ ~Contains(s, <<":","/","/">>)

\* C10: normalize_url returns a bare hash unchanged, also one that starts with
\* the letters http.
C10_BareHashUnchanged ==
    (pc = "norm_done" /\ IsBareHash(arg)) => ret = Ok(arg)

\* The scope list without every occurrence of one scope
WithoutScope(l, s) == SelectSeq(l, LAMBDA x : x # s)

\* The read scope named in `missing` for each group of REQUIRED_SCOPES
GroupReadScope == [disk |-> DiskRead, users |-> UsersRead]

\* C11: validate_scopes returns (is_valid, missing) where missing holds
\* cloud_api:disk.read iff neither disk scope is in the input and
\* directory:read_users iff neither directory scope is, in that order and with
\* nothing else; is_valid is true iff missing is empty.  Adding a write scope
\* to a list holding the group's read scope changes nothing, and removing the
\* only qualifying scope of a group gives is_valid false and one more entry
\* in missing.
C11_ScopesContract ==
    (pc = "scopes_done") =>
        LET given == Range(arg)
            noDisk == DiskRead \notin given /\ DiskWrite \notin given
            noUsers == UsersRead \notin given /\ UsersWrite \notin given
        IN /\ ret.missing = (IF noDisk THEN <<DiskRead>> ELSE <<>>)
                            \o (IF noUsers THEN <<UsersRead>> ELSE <<>>)
           /\ ret.is_valid = (ret.missing = <<>>)
           /\ \A g \in DOMAIN REQUIRED_SCOPES :
                /\ (REQUIRED_SCOPES[g][1] \in given)
                     => validate_scopes(Range(Append(arg, REQUIRED_SCOPES[g][2]))) = ret
                /\ \A s \in given \cap Range(REQUIRED_SCOPES[g]) :
                     (given \cap Range(REQUIRED_SCOPES[g]) = {s})
                     => LET less == validate_scopes(Range(WithoutScope(arg, s)))
                        IN /\ ~less.is_valid
                           /\ Len(less.missing) = Len(ret.missing) + 1
                           /\ GroupReadScope[g] \in Range(less.missing)
                           /\ GroupReadScope[g] \notin Range(ret.missing)

\* A list with only the disk write scope has been validated: the disk group is
\* satisfied by it and the directory group is reported missing
C11_Witness ==
    /\ pc = "scopes_done"
    /\ DiskWrite \in Range(arg)
    /\ DiskRead \notin Range(arg)
    /\ ret = [is_valid |-> FALSE, missing |-> <<UsersRead>>]

\* C12: for a token of 12 or more characters, whatever its characters,
\* get_masked_token returns a text that does not hold the whole token and
\* holds its first 9 and its last 4 characters; for a shorter token it returns
\* the redaction marker.
C12_MaskHidesToken ==
    (pc = "mask_done") =>
        IF Len(arg) >= 12
        THEN /\ ~Contains(ret, arg)
             /\ Contains(ret, SubSeq(arg, 1, 9))
             /\ Contains(ret, SubSeq(arg, Len(arg) - 3, Len(arg)))
        ELSE ret = RedactionMarker

\* The entries of an accesses list whose type is "owner", in order
OwnerEntries(accesses) == SelectSeq(accesses, LAMBDA a : a.type = "owner")

\* C13: for a 2xx owner-lookup response get_resource_owner returns the two
\* integers of the first accesses entry of type "owner", or raises
\* YandexAPIError: when there is no owner entry, when that entry lacks id or
\* org_id, and when either is not integer-coercible.  No other error escapes
\* and later entries are not consulted.
C13_OwnerOrApiError ==
    (pc = "owner_done" /\ arg.status \in 200..299) =>
        LET owners == OwnerEntries(arg.accesses)
        IN IF owners # <<>> /\ Head(owners).id.t = "int" /\ Head(owners).org_id.t = "int"
           THEN ret = ApiOk(Head(owners).id.v, Head(owners).org_id.v)
           ELSE ret.kind = "YandexAPIError"

\* C14: each remote operation turns an HTTP error response into YandexAPIError
\* with a message chosen by the status: 401, 403 and 404 each have a message
\* of their own, different from the message of every other error status and
\* from the general failure message of the operation.
C14_StatusSpecificMessages ==
    (pc = "remote_done" /\ arg.status \in HttpErrorStatuses) =>
        /\ ret.kind = "YandexAPIError"
        /\ (arg.status \in {401, 403, 404}) =>
             /\ \A other \in HttpErrorStatuses \ {arg.status} :
                    RemoteResult(arg.op, other).msg # ret.msg
             /\ RemoteResult(arg.op, 0).msg # ret.msg

\* C15: when the run has ended, by any path, every API client session created
\* during the run has been closed: the active client and every temporary
\* client configure_new created to validate a token.
C15_AllSessionsClosed ==
    (pc = "Done") => \A i \in 1..Len(sessions) : sessions[i].closed

\* The save operations of a log, in order
SavesOf(log) == SelectSeq(log, LAMBDA c : c.op = "save")

\* C16: after any sequence of save, delete and load in one process, load
\* returns the (token, org_id) of the most recent save when the file exists
\* and (None, None) when it does not; an earlier load does not make a later
\* load return values saved before the most recent save.
C16_LoadReturnsLastSave ==
    (pc = "config" /\ calls # <<>> /\ calls[Len(calls)].op = "load") =>
        IF cfgFile.exists
        THEN LET saves == SavesOf(calls)
             IN /\ saves # <<>>
                /\ ret = [token |-> saves[Len(saves)].token,
                          org_id |-> saves[Len(saves)].org_id]
        ELSE ret = NothingLoaded

====
